---- MODULE Spec2Model ----
(***************************************************************************)
(* Model of the command-line parser core of lack-io/cli:                   *)
(*   - parseIter / splitShortOptions / isSplittable        (parse.go)      *)
(*   - IntFlag, UintFlag, Float64Flag, DurationFlag, UintSliceFlag Apply   *)
(*   - UintSlice.Set / Serialize                                           *)
(* Strings are sequences of one-character strings, so that prefix tests,   *)
(* trimming, splitting and number parsing are computed, not assumed.       *)
(* The standard library's flag.FlagSet is modelled by what it does:        *)
(* registration (Var/Int/IntVar/...), Lookup and Parse/parseOne.           *)
(***************************************************************************)
EXTENDS Integers, Sequences, FiniteSets, TLC

\* ------------------------------------------------------------------ bounds
\* longest argument list handed to parseIter
MaxArgs == 3
\* cap on the number of parse attempts of one parseIter call
MaxAttempts == MaxArgs + 2
\* Set calls made on the UintSlice under test
MaxSets == 3

\* ----------------------------------------------------------- package strings
HasPrefix(s, p) == Len(s) >= Len(p) /\ SubSeq(s, 1, Len(p)) = p

TrimPrefix(s, p) == IF HasPrefix(s, p) THEN SubSeq(s, Len(p) + 1, Len(s)) ELSE s

RECURSIVE TrimLeft(_)
TrimLeft(s) == IF s # <<>> /\ Head(s) = " " THEN TrimLeft(Tail(s)) ELSE s

RECURSIVE TrimRight(_)
TrimRight(s) ==
    IF s # <<>> /\ s[Len(s)] = " " THEN TrimRight(SubSeq(s, 1, Len(s) - 1)) ELSE s

TrimSpace(s) == TrimRight(TrimLeft(s))

\* strings.Split(s, sep) for a one-character separator: always at least one piece
RECURSIVE SplitFrom(_, _, _)
SplitFrom(s, sep, cur) ==
    IF s = <<>> THEN <<cur>>
    ELSE IF Head(s) = sep THEN <<cur>> \o SplitFrom(Tail(s), sep, <<>>)
    ELSE SplitFrom(Tail(s), sep, Append(cur, Head(s)))

Split(s, sep) == SplitFrom(s, sep, <<>>)

\* ----------------------------------------------------------- package strconv
Digits == <<"0", "1", "2", "3", "4", "5", "6", "7", "8", "9">>

IsDigit(c) == \E d \in 1..10 : Digits[d] = c

DigitVal(c) == (CHOOSE d \in 1..10 : Digits[d] = c) - 1

AllDigits(s) == \A k \in 1..Len(s) : IsDigit(s[k])

RECURSIVE DigitsToNat(_, _, _)
DigitsToNat(s, base, acc) ==
    IF s = <<>> THEN acc ELSE DigitsToNat(Tail(s), base, acc * base + DigitVal(Head(s)))

\* the cause a failed conversion reports: *strconv.NumError{Func, Num, Err}
NumError(fn, s) == <<fn, s, "invalid syntax">>

\* strconv.ParseUint(s, base, 64) for base 10 and base 0 (base 0: a leading
\* "0" selects octal); texts are over digits, signs and letters without
\* base prefixes or underscores
ParseUint(s, base) ==
    IF s = <<>> \/ ~AllDigits(s) THEN [ok |-> FALSE, val |-> 0]
    ELSE IF base = 0 /\ Len(s) > 1 /\ Head(s) = "0"
         THEN IF \A k \in 2..Len(s) : DigitVal(s[k]) < 8
              THEN [ok |-> TRUE, val |-> DigitsToNat(Tail(s), 8, 0)]
              ELSE [ok |-> FALSE, val |-> 0]
    ELSE [ok |-> TRUE, val |-> DigitsToNat(s, 10, 0)]

\* strconv.ParseInt(s, base, 64): optional sign, then an unsigned number
ParseInt(s, base) ==
    IF s = <<>> THEN [ok |-> FALSE, val |-> 0]
    ELSE LET neg  == Head(s) = "-"
             body == IF Head(s) \in {"+", "-"} THEN Tail(s) ELSE s
             u    == ParseUint(body, base)
         IN  IF ~u.ok THEN [ok |-> FALSE, val |-> 0]
             ELSE [ok |-> TRUE, val |-> IF neg THEN 0 - u.val ELSE u.val]

RECURSIVE NatToDigits(_)
NatToDigits(n) ==
    IF n < 10 THEN <<Digits[n + 1]>> ELSE Append(NatToDigits(n \div 10), Digits[(n % 10) + 1])

\* strconv.Itoa / FormatInt(v, 10)
FormatInt(v) == IF v < 0 THEN <<"-">> \o NatToDigits(0 - v) ELSE NatToDigits(v)

\* A float64 is modelled as a sign and a decimal  mant * 10^(-frac)  without
\* trailing zeros in the fraction (decimal texts without exponent).
RECURSIVE NormFloat(_, _)
NormFloat(mant, frac) ==
    IF frac > 0 /\ mant % 10 = 0 THEN NormFloat(mant \div 10, frac - 1)
    ELSE [mant |-> mant, frac |-> frac]

FloatOf(neg, mant, frac) ==
    LET n == NormFloat(mant, frac) IN [neg |-> neg, mant |-> n.mant, frac |-> n.frac]

\* strconv.ParseFloat(s, 64) on decimal texts: [sign] digits [ "." digits ]
ParseFloat(s) ==
    LET bad   == [ok |-> FALSE, val |-> FloatOf(FALSE, 0, 0)]
        neg   == s # <<>> /\ Head(s) = "-"
        body  == IF s # <<>> /\ Head(s) \in {"+", "-"} THEN Tail(s) ELSE s
        parts == Split(body, ".")
    IN  IF Len(parts) > 2 THEN bad
        ELSE LET ip == parts[1]
                 fp == IF Len(parts) = 2 THEN parts[2] ELSE <<>>
             IN  IF ip \o fp = <<>> \/ ~AllDigits(ip \o fp) THEN bad
                 ELSE [ok |-> TRUE,
                       val |-> FloatOf(neg, DigitsToNat(ip \o fp, 10, 0), Len(fp))]

RECURSIVE PadLeft(_, _)
PadLeft(s, n) == IF Len(s) >= n THEN s ELSE PadLeft(<<"0">> \o s, n)

\* strconv.FormatFloat(v, 'g', -1, 64) for the decimals above
FormatFloat(v) ==
    LET ds   == PadLeft(NatToDigits(v.mant), v.frac + 1)
        ip   == SubSeq(ds, 1, Len(ds) - v.frac)
        fp   == SubSeq(ds, Len(ds) - v.frac + 1, Len(ds))
        sign == IF v.neg THEN <<"-">> ELSE <<>>
    IN  sign \o ip \o (IF fp = <<>> THEN <<>> ELSE <<".">> \o fp)

\* ------------------------------------------------------------- package time
\* A time.Duration is modelled as a whole number of milliseconds (the texts
\* of the model use the units ms, s, m and h only).
UnitMap(u) ==
    CASE u = <<"m", "s">> -> 1
      [] u = <<"s">>      -> 1000
      [] u = <<"m">>      -> 60000
      [] u = <<"h">>      -> 3600000
      [] OTHER            -> 0

\* the longest prefix of s made of digits (leadingInt / leadingFraction)
RECURSIVE LeadingDigits(_)
LeadingDigits(s) ==
    IF s # <<>> /\ IsDigit(Head(s)) THEN <<Head(s)>> \o LeadingDigits(Tail(s)) ELSE <<>>

\* the unit: everything up to the next digit or "."
RECURSIVE LeadingUnit(_)
LeadingUnit(s) ==
    IF s # <<>> /\ ~IsDigit(Head(s)) /\ Head(s) # "." THEN <<Head(s)>> \o LeadingUnit(Tail(s))
    ELSE <<>>

RECURSIVE Pow10(_)
Pow10(n) == IF n = 0 THEN 1 ELSE 10 * Pow10(n - 1)

\* the loop of time.ParseDuration: a sequence of  digits [ "." digits ] unit
RECURSIVE ParseDurationTerms(_, _)
ParseDurationTerms(s, d) ==
    IF s = <<>> THEN [ok |-> TRUE, val |-> d]
    ELSE IF ~(Head(s) = "." \/ IsDigit(Head(s))) THEN [ok |-> FALSE, val |-> 0]
    ELSE LET pre   == LeadingDigits(s)
             s1    == SubSeq(s, Len(pre) + 1, Len(s))
             dot   == s1 # <<>> /\ Head(s1) = "."
             s2    == IF dot THEN Tail(s1) ELSE s1
             post  == IF dot THEN LeadingDigits(s2) ELSE <<>>
             s3    == SubSeq(s2, Len(post) + 1, Len(s2))
             u     == LeadingUnit(s3)
             s4    == SubSeq(s3, Len(u) + 1, Len(s3))
             unit  == UnitMap(u)
         IN  IF pre = <<>> /\ post = <<>> THEN [ok |-> FALSE, val |-> 0]
             ELSE IF u = <<>> \/ unit = 0 THEN [ok |-> FALSE, val |-> 0]
             ELSE ParseDurationTerms(s4,
                      d + DigitsToNat(pre, 10, 0) * unit
                        + (DigitsToNat(post, 10, 0) * unit) \div Pow10(Len(post)))

\* the sign applied to the sum of the terms
SignedDuration(neg, r) ==
    IF ~r.ok THEN r ELSE [ok |-> TRUE, val |-> IF neg THEN 0 - r.val ELSE r.val]

\* time.ParseDuration(s)
ParseDuration(s) ==
    LET neg  == s # <<>> /\ Head(s) = "-"
        body == IF s # <<>> /\ Head(s) \in {"+", "-"} THEN Tail(s) ELSE s
    IN  IF body = <<"0">> THEN [ok |-> TRUE, val |-> 0]
        ELSE IF body = <<>> THEN [ok |-> FALSE, val |-> 0]
        ELSE SignedDuration(neg, ParseDurationTerms(body, 0))

\* the fraction of a second that Duration.String prints: ".5", ".25", ""
RECURSIVE FmtFrac(_, _)
FmtFrac(ms, width) ==
    IF ms = 0 THEN <<>>
    ELSE IF ms % 10 = 0 THEN FmtFrac(ms \div 10, width - 1)
    ELSE <<".">> \o PadLeft(NatToDigits(ms), width)

\* time.Duration.String()
FormatDuration(d) ==
    LET u    == IF d < 0 THEN 0 - d ELSE d
        sign == IF d < 0 THEN <<"-">> ELSE <<>>
        secs == u \div 1000
        mins == secs \div 60
        hrs  == mins \div 60
    IN  IF u = 0 THEN <<"0", "s">>
        ELSE IF u < 1000 THEN sign \o NatToDigits(u) \o <<"m", "s">>
        ELSE sign
             \o (IF hrs > 0 THEN NatToDigits(hrs) \o <<"h">> ELSE <<>>)
             \o (IF mins > 0 THEN NatToDigits(mins % 60) \o <<"m">> ELSE <<>>)
             \o NatToDigits(secs % 60) \o FmtFrac(u % 1000, 3) \o <<"s">>

\* ------------------------------------------------------------------ errors
\* An error value is the format and the operands it was built from
\* (fmt.Errorf / FlagSet.failf); NilErr is the nil error.
NilErr == [fmt |-> "nil", args |-> <<>>]

Errorf(format, operands) == [fmt |-> format, args |-> operands]

NotDefinedText ==
    <<"f","l","a","g"," ","p","r","o","v","i","d","e","d"," ","b","u","t"," ",
      "n","o","t"," ","d","e","f","i","n","e","d",":"," ","-">>

\* err.Error(): the text of an error the FlagSet reports.  The unknown-flag
\* message is spelled out character by character because parseIter matches
\* on it; the other messages keep their fixed part as one piece.
ErrorString(e) ==
    CASE e.fmt = "flag provided but not defined: -%s" -> NotDefinedText \o e.args[1]
      [] e.fmt = "bad flag syntax: %s"       -> <<"bad flag syntax: ">> \o e.args[1]
      [] e.fmt = "flag needs an argument: -%s" ->
             <<"flag needs an argument: -">> \o e.args[1]
      [] e.fmt = "invalid value %q for flag -%s: %v" ->
             <<"invalid value ", "\"">> \o e.args[1] \o <<"\"", " for flag -">> \o e.args[2]
      [] e.fmt = "invalid boolean value %q for -%s: %v" ->
             <<"invalid boolean value ", "\"">> \o e.args[1] \o <<"\"", " for -">> \o e.args[2]
      [] OTHER -> <<e.fmt>>

\* -------------------------------------------------------------------- heap
\* Storage cells the FlagSet and the flags point to: a Destination variable,
\* the variable FlagSet.Int/Uint/... allocates for a name, a *UintSlice.
NilRef == [k |-> "nil", n |-> <<>>, i |-> 0]
DestRef(flagName) == [k |-> "dest", n |-> flagName, i |-> 0]
VarRef(name) == [k |-> "var", n |-> name, i |-> 0]
SliceRef(i) == [k |-> "us", n |-> <<>>, i |-> i]

\* the next unused *UintSlice address
NewSliceRef(mem) == SliceRef(Cardinality({r \in DOMAIN mem : r.k = "us"}) + 1)

Store(mem, ref, val) == [r \in DOMAIN mem \cup {ref} |-> IF r = ref THEN val ELSE mem[r]]

\* ----------------------------------------------------------------- UintSlice
slPfx == <<"s", "l", ":", ":", ":">>

\* &UintSlice{}
EmptyUintSlice == [slice |-> <<>>, hasBeenSet |-> FALSE]

\* NewUintSlice(defaults...)
NewUintSlice(defaults) == [slice |-> <<>> \o defaults, hasBeenSet |-> FALSE]

\* one element of a JSON array of unsigned integers (no leading zeros)
JSONUint(s) ==
    LET t == TrimSpace(s)
    IN  IF t # <<>> /\ AllDigits(t) /\ (Len(t) = 1 \/ Head(t) # "0")
        THEN [ok |-> TRUE, val |-> DigitsToNat(t, 10, 0)]
        ELSE [ok |-> FALSE, val |-> 0]

\* json.Unmarshal(data, &slice) for data that is either a JSON array of
\* unsigned integers, "null", or not JSON at all; on a syntax error the
\* target is left as it was
Unmarshal(data, slice) ==
    LET t == TrimSpace(data)
    IN  IF t = <<"n", "u", "l", "l">> THEN [ok |-> TRUE, slice |-> <<>>]
        ELSE IF Len(t) < 2 \/ Head(t) # "[" \/ t[Len(t)] # "]"
             THEN [ok |-> FALSE, slice |-> slice]
        ELSE LET body  == SubSeq(t, 2, Len(t) - 1)
                 elems == IF TrimSpace(body) = <<>> THEN <<>> ELSE Split(body, ",")
             IN  IF \A k \in 1..Len(elems) : JSONUint(elems[k]).ok
                 THEN [ok |-> TRUE, slice |-> [k \in 1..Len(elems) |-> JSONUint(elems[k]).val]]
                 ELSE [ok |-> FALSE, slice |-> slice]

\* Set appending the deserialized payload to the contents, as it does for a
\* plain value, instead of overwriting them
UintSliceSet_Appends(u, value) ==
    LET u1 == IF ~u.hasBeenSet THEN [slice |-> <<>>, hasBeenSet |-> TRUE] ELSE u
    IN  IF HasPrefix(value, slPfx)
        THEN [u   |-> [slice |-> u1.slice \o Unmarshal(TrimPrefix(value, slPfx), <<>>).slice,
                       hasBeenSet |-> TRUE],
              err |-> NilErr]
        ELSE LET tmp == ParseUint(value, 10)
             IN  IF ~tmp.ok
                 THEN [u |-> u1, err |-> Errorf("%v", <<NumError("ParseUint", value)>>)]
                 ELSE [u |-> [u1 EXCEPT !.slice = Append(u1.slice, tmp.val)], err |-> NilErr]

\* (*UintSlice).Set(value): the new state of the slice and the error returned
UintSliceSet(u, value) ==
    LET u1 == IF ~u.hasBeenSet THEN [slice |-> <<>>, hasBeenSet |-> TRUE] ELSE u
    IN  IF HasPrefix(value, slPfx)
        THEN [u   |-> [slice |-> Unmarshal(TrimPrefix(value, slPfx), u1.slice).slice,
                       hasBeenSet |-> TRUE],
              err |-> NilErr]
        ELSE LET tmp == ParseUint(value, 10)
             IN  IF ~tmp.ok
                 THEN [u |-> u1, err |-> Errorf("%v", <<NumError("ParseUint", value)>>)]
                 ELSE [u |-> [u1 EXCEPT !.slice = Append(u1.slice, tmp.val)], err |-> NilErr]

\* json.Marshal of a []uint
RECURSIVE MarshalElems(_)
MarshalElems(sl) ==
    IF sl = <<>> THEN <<>>
    ELSE IF Len(sl) = 1 THEN NatToDigits(sl[1])
    ELSE NatToDigits(Head(sl)) \o <<",">> \o MarshalElems(Tail(sl))

\* (*UintSlice).Serialize()
Serialize(u) == slPfx \o <<"[">> \o MarshalElems(u.slice) \o <<"]">>

\* (*UintSlice).Value()
UintSliceValue(u) == u.slice

\* ------------------------------------------------------------ flag.FlagSet
\* formal: the registered flags by name; actual: the names seen by Parse;
\* args: the arguments Parse has not consumed yet.
NoFlags == [n \in {} |-> 0]

NewFlagSet == [formal |-> NoFlags, actual |-> {}, args |-> <<>>]

Registered(set, name) == name \in DOMAIN set.formal

\* FlagSet.Lookup(name) # nil
Lookup(set, name) == Registered(set, name)

\* FlagSet.Var(value, name, usage): value.String() is called for the default
\* text (a nil *UintSlice panics there) and a redefined name panics
Var(set, kind, ref, name) ==
    IF ref = NilRef \/ Registered(set, name)
    THEN [set |-> set, panic |-> TRUE]
    ELSE [set |-> [set EXCEPT !.formal =
                      [n \in DOMAIN set.formal \cup {name} |->
                          IF n = name THEN [kind |-> kind, ref |-> ref]
                          ELSE set.formal[n]]],
          panic |-> FALSE]

\* strconv.ParseBool
ParseBool(s) ==
    IF s \in {<<"1">>, <<"t">>, <<"T">>, <<"t","r","u","e">>, <<"T","R","U","E">>,
              <<"T","r","u","e">>}
    THEN [ok |-> TRUE, val |-> TRUE]
    ELSE IF s \in {<<"0">>, <<"f">>, <<"F">>, <<"f","a","l","s","e">>,
                   <<"F","A","L","S","E">>, <<"F","a","l","s","e">>}
    THEN [ok |-> TRUE, val |-> FALSE]
    ELSE [ok |-> FALSE, val |-> FALSE]

\* the conversion flag.Value.Set(s) makes for the standard library's
\* boolValue, intValue, uintValue (base 0), float64Value and durationValue
Convert(kind, s) ==
    CASE kind = "bool"     -> ParseBool(s)
      [] kind = "int"      -> ParseInt(s, 0)
      [] kind = "uint"     -> ParseUint(s, 0)
      [] kind = "float64"  -> ParseFloat(s)
      [] kind = "duration" -> ParseDuration(s)

\* a standard value stores what was converted, or fails and stores nothing
StoreConverted(entry, mem, conv) ==
    IF conv.ok THEN [ok |-> TRUE, mem |-> Store(mem, entry.ref, conv.val)]
    ELSE [ok |-> FALSE, mem |-> mem]

\* a *UintSlice is left as its Set left it, error or not
StoreSlice(entry, mem, r) == [ok |-> r.err = NilErr, mem |-> Store(mem, entry.ref, r.u)]

\* flag.Value.Set(s) of the value registered as `entry`
ValueSet(entry, mem, s) ==
    IF entry.kind = "uintslice" THEN StoreSlice(entry, mem, UintSliceSet(mem[entry.ref], s))
    ELSE StoreConverted(entry, mem, Convert(entry.kind, s))

\* position of the first "=" of a flag name after its first character, or 0
EqualsAt(name) ==
    IF \E k \in 2..Len(name) : name[k] = "="
    THEN CHOOSE k \in 2..Len(name) : name[k] = "=" /\ \A j \in 2..(k - 1) : name[j] # "="
    ELSE 0

\* the end of parseOne: the flag was set (seen) or its value was rejected
AfterSet(fs, name, r, e) ==
    IF ~r.ok THEN [seen |-> FALSE, err |-> e, set |-> fs, mem |-> r.mem]
    ELSE [seen |-> TRUE, err |-> NilErr, mem |-> r.mem,
          set |-> [fs EXCEPT !.actual = @ \cup {name}]]

\* FlagSet.parseOne(): seen, the error, and the FlagSet and heap afterwards
parseOne(set, mem) ==
    LET stop(e) == [seen |-> FALSE, err |-> e, set |-> set, mem |-> mem]
    IN  IF set.args = <<>> THEN stop(NilErr)
        ELSE
        LET s == Head(set.args)
        IN  IF Len(s) < 2 \/ s[1] # "-" THEN stop(NilErr)
            ELSE IF s = <<"-", "-">>
                 THEN [seen |-> FALSE, err |-> NilErr,
                       set |-> [set EXCEPT !.args = Tail(set.args)], mem |-> mem]
            ELSE
            LET numMinuses == IF s[2] = "-" THEN 2 ELSE 1
                full == SubSeq(s, numMinuses + 1, Len(s))
            IN  IF full = <<>> \/ Head(full) = "-" \/ Head(full) = "="
                THEN stop(Errorf("bad flag syntax: %s", <<s>>))
                ELSE
                LET eq       == EqualsAt(full)
                    hasValue == eq # 0
                    value    == IF hasValue THEN SubSeq(full, eq + 1, Len(full)) ELSE <<>>
                    name     == IF hasValue THEN SubSeq(full, 1, eq - 1) ELSE full
                    rest     == Tail(set.args)
                    set1     == [set EXCEPT !.args = rest]
                    fail(e)  == [seen |-> FALSE, err |-> e, set |-> set1, mem |-> mem]
                IN  IF ~Registered(set, name)
                    THEN IF name = <<"h","e","l","p">> \/ name = <<"h">>
                         THEN fail(Errorf("flag: help requested", <<>>))
                         ELSE fail(Errorf("flag provided but not defined: -%s", <<name>>))
                    ELSE IF set.formal[name].kind = "bool"
                    THEN AfterSet(set1, name,
                             ValueSet(set.formal[name], mem,
                                      IF hasValue THEN value ELSE <<"t","r","u","e">>),
                             Errorf("invalid boolean value %q for -%s: %v", <<value, name>>))
                    ELSE IF hasValue
                    THEN AfterSet(set1, name, ValueSet(set.formal[name], mem, value),
                             Errorf("invalid value %q for flag -%s: %v", <<value, name>>))
                    ELSE IF rest = <<>>
                    THEN fail(Errorf("flag needs an argument: -%s", <<name>>))
                    ELSE AfterSet([set1 EXCEPT !.args = Tail(rest)], name,
                             ValueSet(set.formal[name], mem, Head(rest)),
                             Errorf("invalid value %q for flag -%s: %v", <<Head(rest), name>>))

\* the loop of FlagSet.Parse (ContinueOnError): parseOne until it sees no flag
RECURSIVE ParseLoop(_, _)
RECURSIVE ParseNext(_)
ParseNext(r) ==
    IF r.seen THEN ParseLoop(r.set, r.mem) ELSE [set |-> r.set, mem |-> r.mem, err |-> r.err]

ParseLoop(set, mem) == ParseNext(parseOne(set, mem))

\* FlagSet.Parse(arguments)
Parse(set, mem, arguments) == ParseLoop([set EXCEPT !.args = arguments], mem)

\* -------------------------------------------------------------------- state
VARIABLES
    flags,                  \* the declared flag structs, in declaration order
    bools,                  \* names of the boolean flags of the FlagSet
    environ,                \* the process environment: variable -> [set, val]
    files,                  \* the file system: path -> [readable, data]
    set,                    \* the FlagSet parseIter works on
    mem,                    \* the storage cells behind flags and FlagSet
    args,                   \* parseIter's working argument list
    useShortOptionHandling, \* ip.useShortOptionHandling()
    shellComplete,          \* parseIter's shellComplete parameter
    newSetFails,            \* whether ip.newFlagSet() reports an error
    pc,                     \* "apply", "parse" or "done"
    nApplied,               \* how many of the flags have been applied
    err,                    \* what the last Apply / parseIter returned
    panicked,               \* a call panicked
    attempts,               \* calls of set.Parse made by parseIter
    rebuilds,               \* calls of ip.newFlagSet made by parseIter
    seen,                   \* the argument list of every parse attempt
    errs,                   \* the error of every parse attempt
    flags0,                 \* the flag structs as declared
    args0,                  \* the argument list parseIter was called with
    slice,                  \* a UintSlice the program calls Set on
    calls,                  \* the Set calls made on it, with their outcomes
    got                     \* the last call of a Context accessor and its result

vars == <<flags, bools, environ, files, set, mem, args, useShortOptionHandling,
          shellComplete, newSetFails, pc, nApplied, err, panicked, attempts,
          rebuilds, seen, errs, flags0, args0, slice, calls, got>>

\* ---------------------------------------------------------- Context lookup
\* no accessor has been called
NoRead == [acc |-> "none", name |-> <<>>, depth |-> 0, val |-> 0, panic |-> FALSE]

\* a number in Go syntax (%#v of a uint): 0x followed by its hexadecimal digits
RECURSIVE NatToHex(_)
NatToHex(n) ==
    LET hex == <<"0", "1", "2", "3", "4", "5", "6", "7", "8", "9", "a", "b", "c", "d", "e", "f">>
    IN  IF n < 16 THEN <<hex[n + 1]>> ELSE NatToHex(n \div 16) \o <<hex[(n % 16) + 1]>>

RECURSIVE GoSyntaxElems(_)
GoSyntaxElems(sl) ==
    IF sl = <<>> THEN <<>>
    ELSE IF Len(sl) = 1 THEN <<"0", "x">> \o NatToHex(sl[1])
    ELSE <<"0", "x">> \o NatToHex(Head(sl)) \o <<",", " ">> \o GoSyntaxElems(Tail(sl))

\* (*UintSlice).String(): fmt.Sprintf("%#v", f.slice)
UintSliceString(u) ==
    <<"[", "]", "u", "i", "n", "t", "{">> \o GoSyntaxElems(u.slice) \o <<"}">>

\* f.Value.String() of a flag registered in a FlagSet
ValueString(entry, m) ==
    CASE entry.kind = "int"       -> FormatInt(m[entry.ref])
      [] entry.kind = "uint"      -> NatToDigits(m[entry.ref])
      [] entry.kind = "float64"   -> FormatFloat(m[entry.ref])
      [] entry.kind = "duration"  -> FormatDuration(m[entry.ref])
      [] entry.kind = "bool"      -> IF m[entry.ref] THEN <<"t", "r", "u", "e">>
                                     ELSE <<"f", "a", "l", "s", "e">>
      [] entry.kind = "uintslice" -> UintSliceString(m[entry.ref])

\* the result of an accessor: a value, or a panic
Returns(v) == [val |-> v, panic |-> FALSE]
Panics(zero) == [val |-> zero, panic |-> TRUE]

\* what a lookup returns for the outcome p of converting the flag's text
OrZero(p, zero) == IF ~p.ok THEN Returns(zero) ELSE Returns(p.val)

\* lookupInt(name, set)
lookupInt(name, fs, m) ==
    IF Lookup(fs, name) THEN OrZero(ParseInt(ValueString(fs.formal[name], m), 10), 0)
    ELSE Returns(0)

\* lookupUint(name, set)
lookupUint(name, fs, m) ==
    IF Lookup(fs, name) THEN OrZero(ParseUint(ValueString(fs.formal[name], m), 10), 0)
    ELSE Returns(0)

\* lookupFloat64(name, set)
lookupFloat64(name, fs, m) ==
    IF Lookup(fs, name)
    THEN OrZero(ParseFloat(ValueString(fs.formal[name], m)), FloatOf(FALSE, 0, 0))
    ELSE Returns(FloatOf(FALSE, 0, 0))

\* lookupDuration(name, set)
lookupDuration(name, fs, m) ==
    IF Lookup(fs, name) THEN OrZero(ParseDuration(ValueString(fs.formal[name], m)), 0)
    ELSE Returns(0)

\* lookupUintSlice(name, set): the type assertion f.Value.(*UintSlice) panics
\* when the flag's value is of another type
lookupUintSlice(name, fs, m) ==
    IF Lookup(fs, name)
    THEN IF fs.formal[name].kind = "uintslice"
         THEN Returns(UintSliceValue(m[fs.formal[name].ref]))
         ELSE Panics(<<>>)
    ELSE Returns(<<>>)

\* lookupFlagSet(name, ctx): the position in the chain of contexts (local
\* first, then the parents) of the first FlagSet that registers name, or 0
lookupFlagSet(name, chain) ==
    IF \E k \in 1..Len(chain) : Lookup(chain[k], name)
    THEN CHOOSE k \in 1..Len(chain) :
             Lookup(chain[k], name) /\ \A j \in 1..(k - 1) : ~Lookup(chain[j], name)
    ELSE 0

\* the type's zero value an accessor returns
Zero(acc) ==
    CASE acc = "Float64"   -> FloatOf(FALSE, 0, 0)
      [] acc = "UintSlice" -> <<>>
      [] OTHER             -> 0

\* the lookup an accessor reads with
lookup(acc, name, fs, m) ==
    CASE acc = "Int"       -> lookupInt(name, fs, m)
      [] acc = "Uint"      -> lookupUint(name, fs, m)
      [] acc = "Float64"   -> lookupFloat64(name, fs, m)
      [] acc = "Duration"  -> lookupDuration(name, fs, m)
      [] acc = "UintSlice" -> lookupUintSlice(name, fs, m)

\* (*Context).Int(name), Uint, Float64, Duration, UintSlice, given the
\* position k of the FlagSet that lookupFlagSet found
Accessor(acc, name, chain, m, k) ==
    IF k # 0 THEN lookup(acc, name, chain[k], m) ELSE Returns(Zero(acc))

\* ------------------------------------------------------- flags: resolution
\* flagNames(name, aliases): the primary name, then the aliases
flagNames(name, aliases) == <<name>> \o aliases

\* (*IntFlag).TakesValue(), and that of every other flag type
TakesValue(f) ==
    CASE f.type = "IntFlag"       -> TRUE
      [] f.type = "UintFlag"      -> TRUE
      [] f.type = "Float64Flag"   -> FALSE
      [] f.type = "DurationFlag"  -> TRUE
      [] f.type = "UintSliceFlag" -> TRUE

\* Names() of every flag type
Names(f) == flagNames(f.Name, f.Aliases)

\* flagFromEnvOrFile(envVars, filePath): the first environment variable that
\* is set and not empty, else the trimmed contents of the file if readable
flagFromEnvOrFile(envVars, filePath) ==
    LET hits == {k \in 1..Len(envVars) :
                    environ[envVars[k]].set /\ environ[envVars[k]].val # <<>>}
    IN  IF hits # {}
        THEN [val |-> environ[envVars[CHOOSE k \in hits : \A j \in hits : k <= j]].val,
              ok |-> TRUE]
        ELSE IF filePath # "" /\ files[filePath].readable
        THEN [val |-> TrimSpace(files[filePath].data), ok |-> TRUE]
        ELSE [val |-> <<>>, ok |-> FALSE]

\* the registration loop never binding the Destination: a new variable under
\* every name
RECURSIVE RegisterScalar_NoDestination(_, _, _, _, _)
RegisterScalar_NoDestination(kind, f, names, fs, m) ==
    IF names = <<>> THEN [set |-> fs, mem |-> m, panic |-> FALSE]
    ELSE LET name == Head(names)
             ref  == VarRef(name)
             m1   == Store(m, ref, f.Value)
             v    == Var(fs, kind, ref, name)
         IN  IF v.panic THEN [set |-> fs, mem |-> m1, panic |-> TRUE]
             ELSE RegisterScalar_NoDestination(kind, f, Tail(names), v.set, m1)

\* the registration loop of a scalar flag's Apply: under every name, bind the
\* Destination (set.IntVar: *p = value, then Var) or a new variable (set.Int)
RECURSIVE RegisterScalar(_, _, _, _, _)
RegisterScalar(kind, f, names, fs, m) ==
    IF names = <<>> THEN [set |-> fs, mem |-> m, panic |-> FALSE]
    ELSE LET name == Head(names)
             ref  == IF f.Destination # NilRef THEN f.Destination ELSE VarRef(name)
             m1   == Store(m, ref, f.Value)
             v    == Var(fs, kind, ref, name)
         IN  IF v.panic THEN [set |-> fs, mem |-> m1, panic |-> TRUE]
             ELSE RegisterScalar(kind, f, Tail(names), v.set, m1)

ApplyFailed(f, fs, m, e) == [f |-> f, set |-> fs, mem |-> m, err |-> e, panic |-> FALSE]

\* the end of a scalar flag's Apply: the registration loop, then return nil
Registered2(f, reg) ==
    [f |-> f, set |-> reg.set, mem |-> reg.mem, err |-> NilErr, panic |-> reg.panic]

ApplyScalar(kind, f, fs, m) == Registered2(f, RegisterScalar(kind, f, Names(f), fs, m))

\* the body all scalar flags' Apply share, given the raw text r found, its
\* conversion conv and the error e to report when the conversion fails
ApplyResolved(kind, f, fs, m, r, conv, e) ==
    IF r.ok /\ r.val # <<>>
    THEN IF ~conv.ok THEN ApplyFailed(f, fs, m, e)
         ELSE ApplyScalar(kind, [f EXCEPT !.Value = conv.val, !.HasBeenSet = TRUE], fs, m)
    ELSE ApplyScalar(kind, f, fs, m)

\* (*IntFlag).Apply(set)
IntFlagApply(f, fs, m) ==
    LET val == flagFromEnvOrFile(f.EnvVars, f.FilePath).val
    IN  ApplyResolved("int", f, fs, m, flagFromEnvOrFile(f.EnvVars, f.FilePath),
            ParseInt(val, 10),
            Errorf("could not parse %q as int value for flag %s: %v",
                   <<val, f.Name, NumError("ParseInt", val)>>))

\* (*UintFlag).Apply(set)
UintFlagApply(f, fs, m) ==
    LET val == flagFromEnvOrFile(f.EnvVars, f.FilePath).val
    IN  ApplyResolved("uint", f, fs, m, flagFromEnvOrFile(f.EnvVars, f.FilePath),
            ParseUint(val, 10),
            Errorf("could not parse %q as int value for flag %s: %v",
                   <<val, f.Name, NumError("ParseUint", val)>>))

\* (*Float64Flag).Apply(set)
Float64FlagApply(f, fs, m) ==
    LET val == flagFromEnvOrFile(f.EnvVars, f.FilePath).val
    IN  ApplyResolved("float64", f, fs, m, flagFromEnvOrFile(f.EnvVars, f.FilePath),
            ParseFloat(val),
            Errorf("could not parse %q as float64 value for flag %s: %v",
                   <<val, f.Name, NumError("ParseFloat", val)>>))

\* (*DurationFlag).Apply(set)
DurationFlagApply(f, fs, m) ==
    LET val == flagFromEnvOrFile(f.EnvVars, f.FilePath).val
    IN  ApplyResolved("duration", f, fs, m, flagFromEnvOrFile(f.EnvVars, f.FilePath),
            ParseDuration(val),
            Errorf("could not parse %q as duration value for flag %s: %s",
                   <<val, f.Name, <<"time: invalid duration", val>> >>))

\* the loop  for _, s := range strings.Split(val, ",")  of UintSliceFlag.Apply:
\* Set every trimmed piece on the slice at ref, stopping at the first error
RECURSIVE SetPieces(_, _, _)
RECURSIVE SetNext(_, _, _, _)
SetNext(pieces, m, ref, r) ==
    IF r.err # NilErr THEN [mem |-> Store(m, ref, r.u), err |-> r.err]
    ELSE SetPieces(Tail(pieces), Store(m, ref, r.u), ref)

SetPieces(pieces, m, ref) ==
    IF pieces = <<>> THEN [mem |-> m, err |-> NilErr]
    ELSE SetNext(pieces, m, ref, UintSliceSet(m[ref], TrimSpace(Head(pieces))))

\* the registration loop of UintSliceFlag.Apply: under every name, replace a
\* non-nil Value by a new empty UintSlice and register Value
RECURSIVE RegisterUintSlice(_, _, _, _)
RegisterUintSlice(f, names, fs, m) ==
    IF names = <<>> THEN [f |-> f, set |-> fs, mem |-> m, panic |-> FALSE]
    ELSE LET name  == Head(names)
             fresh == NewSliceRef(m)
             f1    == IF f.Value # NilRef THEN [f EXCEPT !.Value = fresh] ELSE f
             m1    == IF f.Value # NilRef THEN Store(m, fresh, EmptyUintSlice) ELSE m
             v     == Var(fs, "uintslice", f1.Value, name)
         IN  IF v.panic THEN [f |-> f1, set |-> fs, mem |-> m1, panic |-> TRUE]
             ELSE RegisterUintSlice(f1, Tail(names), v.set, m1)

\* the end of UintSliceFlag.Apply: the registration loop, then return nil
RegisteredSlice(reg) ==
    [f |-> reg.f, set |-> reg.set, mem |-> reg.mem, err |-> NilErr, panic |-> reg.panic]

\* the body of UintSliceFlag.Apply, given the raw text r found and the outcome
\* sp of setting its pieces on the new slice at `fresh`
UintSliceResolved(f, fs, m, r, fresh, sp) ==
    IF r.ok /\ r.val # <<>>
    THEN IF sp.err # NilErr
         THEN ApplyFailed([f EXCEPT !.Value = fresh], fs, sp.mem,
                  Errorf("could not parse %q as uint slice value for flag %s: %v",
                         <<r.val, f.Name, sp.err>>))
         ELSE LET g == [f EXCEPT !.Value = fresh, !.HasBeenSet = TRUE]
              IN  RegisteredSlice(RegisterUintSlice(g, Names(g), fs, sp.mem))
    ELSE RegisteredSlice(RegisterUintSlice(f, Names(f), fs, m))

\* (*UintSliceFlag).Apply(set)
UintSliceFlagApply(f, fs, m) ==
    UintSliceResolved(f, fs, m, flagFromEnvOrFile(f.EnvVars, f.FilePath), NewSliceRef(m),
        SetPieces(Split(flagFromEnvOrFile(f.EnvVars, f.FilePath).val, ","),
                  Store(m, NewSliceRef(m), EmptyUintSlice), NewSliceRef(m)))

\* the Apply of the flag's own type
Apply(f, fs, m) ==
    CASE f.type = "IntFlag"       -> IntFlagApply(f, fs, m)
      [] f.type = "UintFlag"      -> UintFlagApply(f, fs, m)
      [] f.type = "Float64Flag"   -> Float64FlagApply(f, fs, m)
      [] f.type = "DurationFlag"  -> DurationFlagApply(f, fs, m)
      [] f.type = "UintSliceFlag" -> UintSliceFlagApply(f, fs, m)

\* ----------------------------------------------------------------- parse.go
\* the boolean flags of a FlagSet: set.Bool(name, false, usage) for each name
RegisterBools(names, fs, m) ==
    [set |-> [fs EXCEPT !.formal =
                 [n \in DOMAIN fs.formal \cup names |->
                     IF n \in names THEN [kind |-> "bool", ref |-> VarRef(n)]
                     ELSE fs.formal[n]]],
     mem |-> [r \in DOMAIN m \cup {VarRef(n) : n \in names} |->
                 IF r \in {VarRef(n) : n \in names} THEN FALSE ELSE m[r]]]

\* applying the flags fl one after the other, stopping at the first failure
RECURSIVE ApplyAll(_, _, _, _)
RECURSIVE ApplyNext(_, _, _)
ApplyNext(fl, k, r) ==
    IF r.err # NilErr \/ r.panic
    THEN [flags |-> [fl EXCEPT ![k] = r.f], set |-> r.set, mem |-> r.mem,
          err |-> r.err, panic |-> r.panic]
    ELSE ApplyAll([fl EXCEPT ![k] = r.f], k + 1, r.set, r.mem)

ApplyAll(fl, k, fs, m) ==
    IF k > Len(fl) THEN [flags |-> fl, set |-> fs, mem |-> m, err |-> NilErr, panic |-> FALSE]
    ELSE ApplyNext(fl, k, Apply(fl[k], fs, m))

\* ip.newFlagSet(): a new FlagSet with the same flag definitions applied
newFlagSet(fl, boolNames, m) ==
    IF newSetFails
    THEN [flags |-> fl, set |-> NewFlagSet, mem |-> m, panic |-> FALSE,
          err |-> Errorf("newFlagSet failed", <<>>)]
    ELSE LET b == RegisterBools(boolNames, NewFlagSet, m)
         IN  ApplyAll(fl, 1, b.set, b.mem)

\* the prefix parseIter strips from the error text (parse.go line 44)
ErrPrefix ==
    <<"f","l","a","g"," ","p","r","o","v","i","d","e","d"," ","b","u","t"," ",
      "n","o","t"," ","d","e","f","a","u","l","t",":"," ","-">>

isSplittable(flagArg) ==
    HasPrefix(flagArg, <<"-">>) /\ ~HasPrefix(flagArg, <<"-", "-">>) /\ Len(flagArg) > 2

shortFlagsExists(fs, s) == \A k \in 2..Len(s) : Lookup(fs, <<s[k]>>)

splitShortOptions(fs, arg) ==
    IF ~isSplittable(arg) \/ ~shortFlagsExists(fs, arg) THEN <<arg>>
    ELSE [k \in 1..(Len(arg) - 1) |-> <<"-", arg[k + 1]>>]

\* index of the first argument that is the name of the error message, or 0
Offender(as, trimmed) ==
    LET hits == {k \in 1..Len(as) : TrimPrefix(as[k], <<"-">>) = trimmed}
    IN  IF hits = {} THEN 0 ELSE CHOOSE k \in hits : \A j \in hits : k <= j

\* lines 75-80: the FlagSet is replaced by n, the outcome of ip.newFlagSet()
\* (its error ends parseIter); as1 is the rewritten argument list
Replace(p, as1, n) ==
    [done |-> n.err # NilErr \/ n.panic, ret |-> n.err, perr |-> p.err, flags |-> n.flags,
     set |-> IF n.err # NilErr \/ n.panic THEN p.set ELSE n.set, mem |-> n.mem,
     args |-> as1, rebuilt |-> TRUE, panic |-> n.panic]

\* parseIterBody returning to the top of the loop, instead of returning the
\* error, when the error text does not carry the prefix
parseIterBody_Retries(fl, boolNames, as, short, complete, p) ==
    LET errStr  == ErrorString(p.err)
        trimmed == TrimPrefix(errStr, ErrPrefix)
        i       == Offender(as, trimmed)
        opts    == splitShortOptions(p.set, as[i])
        return(e) == [done |-> TRUE, ret |-> e, perr |-> p.err, flags |-> fl, set |-> p.set,
                      mem |-> p.mem, args |-> as, rebuilt |-> FALSE, panic |-> FALSE]
    IN  IF ~short \/ p.err = NilErr
        THEN IF complete THEN return(NilErr) ELSE return(p.err)
        ELSE IF errStr = trimmed THEN [return(p.err) EXCEPT !.done = FALSE]
        ELSE IF i = 0 THEN return(p.err)
        ELSE IF Len(opts) = 1 THEN return(p.err)
        ELSE Replace(p, SubSeq(as, 1, i - 1) \o opts \o SubSeq(as, i + 1, Len(as)),
                     newFlagSet(fl, boolNames, p.mem))

\* parseIterBody suppressing, in shell-completion mode, also the errors it
\* returns when short-option handling is enabled
parseIterBody_CompleteSwallows(fl, boolNames, as, short, complete, p) ==
    LET errStr  == ErrorString(p.err)
        trimmed == TrimPrefix(errStr, ErrPrefix)
        i       == Offender(as, trimmed)
        opts    == splitShortOptions(p.set, as[i])
        return(e) == [done |-> TRUE, ret |-> IF complete THEN NilErr ELSE e, perr |-> p.err,
                      flags |-> fl, set |-> p.set, mem |-> p.mem, args |-> as,
                      rebuilt |-> FALSE, panic |-> FALSE]
    IN  IF ~short \/ p.err = NilErr THEN return(p.err)
        ELSE IF errStr = trimmed THEN return(p.err)
        ELSE IF i = 0 THEN return(p.err)
        ELSE IF Len(opts) = 1 THEN return(p.err)
        ELSE Replace(p, SubSeq(as, 1, i - 1) \o opts \o SubSeq(as, i + 1, Len(as)),
                     newFlagSet(fl, boolNames, p.mem))

\* a token without its leading dashes
RECURSIVE TrimDashes(_)
TrimDashes(s) == IF s # <<>> /\ Head(s) = "-" THEN TrimDashes(Tail(s)) ELSE s

\* parseIterBody splitting, after an unknown-flag error, the first token with
\* any number of leading dashes whose letters are all registered flags
parseIterBody_SplitsAnyDashes(fl, boolNames, as, short, complete, p) ==
    LET hits    == {k \in 1..Len(as) :
                       /\ HasPrefix(as[k], <<"-">>)
                       /\ Len(TrimDashes(as[k])) > 1
                       /\ \A c \in 1..Len(TrimDashes(as[k])) :
                              Lookup(p.set, <<TrimDashes(as[k])[c]>>)}
        i       == IF hits = {} THEN 0 ELSE CHOOSE k \in hits : \A j \in hits : k <= j
        opts    == [k \in 1..Len(TrimDashes(as[i])) |-> <<"-", TrimDashes(as[i])[k]>>]
        return(e) == [done |-> TRUE, ret |-> e, perr |-> p.err, flags |-> fl, set |-> p.set,
                      mem |-> p.mem, args |-> as, rebuilt |-> FALSE, panic |-> FALSE]
    IN  IF ~short \/ p.err = NilErr
        THEN IF complete THEN return(NilErr) ELSE return(p.err)
        ELSE IF p.err.fmt # "flag provided but not defined: -%s" THEN return(p.err)
        ELSE IF i = 0 THEN return(p.err)
        ELSE Replace(p, SubSeq(as, 1, i - 1) \o opts \o SubSeq(as, i + 1, Len(as)),
                     newFlagSet(fl, boolNames, p.mem))

\* parseIterBody stripping the prefix of the text the FlagSet reports for a
\* flag that is not defined, so that the scan and the split are reached
parseIterBody_StripsDefined(fl, boolNames, as, short, complete, p) ==
    LET errStr  == ErrorString(p.err)
        trimmed == TrimPrefix(errStr, NotDefinedText)
        i       == Offender(as, trimmed)
        opts    == splitShortOptions(p.set, as[i])
        return(e) == [done |-> TRUE, ret |-> e, perr |-> p.err, flags |-> fl, set |-> p.set,
                      mem |-> p.mem, args |-> as, rebuilt |-> FALSE, panic |-> FALSE]
    IN  IF ~short \/ p.err = NilErr
        THEN IF complete THEN return(NilErr) ELSE return(p.err)
        ELSE IF errStr = trimmed THEN return(p.err)
        ELSE IF i = 0 THEN return(p.err)
        ELSE IF Len(opts) = 1 THEN return(p.err)
        ELSE Replace(p, SubSeq(as, 1, i - 1) \o opts \o SubSeq(as, i + 1, Len(as)),
                     newFlagSet(fl, boolNames, p.mem))

\* lines 36-81, the loop body of parseIter after  err := set.Parse(args)  with
\* outcome p: either return (done, with the returned error) or rewrite the
\* arguments, replace the FlagSet and go round again
parseIterBody(fl, boolNames, as, short, complete, p) ==
    LET errStr  == ErrorString(p.err)
        trimmed == TrimPrefix(errStr, ErrPrefix)
        i       == Offender(as, trimmed)
        opts    == splitShortOptions(p.set, as[i])
        return(e) == [done |-> TRUE, ret |-> e, perr |-> p.err, flags |-> fl, set |-> p.set,
                      mem |-> p.mem, args |-> as, rebuilt |-> FALSE, panic |-> FALSE]
    IN  IF ~short \/ p.err = NilErr
        THEN IF complete THEN return(NilErr) ELSE return(p.err)
        ELSE IF errStr = trimmed THEN return(p.err)
        ELSE IF i = 0 THEN return(p.err)
        ELSE IF Len(opts) = 1 THEN return(p.err)
        ELSE Replace(p, SubSeq(as, 1, i - 1) \o opts \o SubSeq(as, i + 1, Len(as)),
                     newFlagSet(fl, boolNames, p.mem))

\* one iteration of the loop of parseIter
parseIterStep(fl, boolNames, fs, m, as, short, complete) ==
    parseIterBody(fl, boolNames, as, short, complete, Parse(fs, m, as))

\* ------------------------------------------------------------------ inputs
FlagTypes == {"IntFlag", "UintFlag", "Float64Flag", "DurationFlag", "UintSliceFlag"}

\* texts tried for a flag of each type: a, b and c are valid and denote
\* different values, bad and bad2 are not valid, cmd is a command-line value
TextsOf(type) ==
    CASE type = "IntFlag" ->
           [a |-> <<"7">>, b |-> <<"-", "3">>, c |-> <<" ", "1", "2", " ">>,
            bad |-> <<"x">>, bad2 |-> <<"1", ",", "2">>, cmd |-> <<"5">>]
      [] type = "UintFlag" ->
           [a |-> <<"7">>, b |-> <<"3">>, c |-> <<" ", "1", "2", " ">>,
            bad |-> <<"-", "3">>, bad2 |-> <<"1", ",", "2">>, cmd |-> <<"5">>]
      [] type = "Float64Flag" ->
           [a |-> <<"1", ".", "5">>, b |-> <<"-", "3">>, c |-> <<" ", "0", ".", "2", "5", " ">>,
            bad |-> <<"x">>, bad2 |-> <<"1", ",", "2">>, cmd |-> <<"2", ".", "5">>]
      [] type = "DurationFlag" ->
           [a |-> <<"1", ".", "5", "s">>, b |-> <<"9", "0", "s">>, c |-> <<" ", "2", "m", " ">>,
            bad |-> <<"5">>, bad2 |-> <<"1", ",", "2">>, cmd |-> <<"1", "m", "3", "0", "s">>]
      [] type = "UintSliceFlag" ->
           [a |-> <<"1", ",", " ", "2">>, b |-> <<"3">>, c |-> slPfx \o <<"[", "6", "]", " ">>,
            bad |-> <<"1", ",", "x">>, bad2 |-> slPfx \o <<"x">>, cmd |-> <<"5">>]

\* the static default Value of a scalar flag of each type
DefaultOf(type) ==
    CASE type = "IntFlag"      -> ParseInt(<<"1">>, 10).val
      [] type = "UintFlag"     -> ParseUint(<<"1">>, 10).val
      [] type = "Float64Flag"  -> ParseFloat(<<"1">>).val
      [] type = "DurationFlag" -> ParseDuration(<<"1", "s">>).val
      [] OTHER                 -> NilRef

Unset == [set |-> FALSE, val |-> <<>>]
EnvText(t) == [set |-> TRUE, val |-> t]

\* the flag under test, named "v" (alias "w"); bound: a Destination is bound
\* (scalar types) or a default *UintSlice is given (UintSliceFlag)
FlagV(type, aliases, bound, envVars, filePath) ==
    [type |-> type, Name |-> <<"v">>, Aliases |-> aliases, EnvVars |-> envVars,
     FilePath |-> filePath,
     Value |-> IF type = "UintSliceFlag" THEN (IF bound THEN SliceRef(1) ELSE NilRef)
               ELSE DefaultOf(type),
     Destination |-> IF type # "UintSliceFlag" /\ bound THEN DestRef(<<"v">>) ELSE NilRef,
     HasBeenSet |-> FALSE]

\* a second flag, declared before or after the flag under test
FlagU ==
    [type |-> "IntFlag", Name |-> <<"u">>, Aliases |-> <<>>, EnvVars |-> <<>>,
     FilePath |-> "", Value |-> ParseInt(<<"3">>, 10).val, Destination |-> NilRef,
     HasBeenSet |-> FALSE]

\* argument tokens of the parsing scenarios
ArgTokens ==
    {<<"-", "i">>, <<"-", "t">>, <<"-", "i", "t">>, <<"-", "i", "x">>,
     <<"-", "-", "i", "t">>, <<"-", "v">>, <<"5">>}

RECURSIVE ArgLists(_)
ArgLists(n) ==
    IF n = 0 THEN {<<>>}
    ELSE LET shorter == ArgLists(n - 1)
         IN  shorter \cup {Append(l, t) : l \in {x \in shorter : Len(x) = n - 1}, t \in ArgTokens}

BoolSets == {{<<"i">>, <<"t">>}, {<<"i">>}, {}}

\* the heap a program starts with: the Destination of v and its default slice
InitMem(fl) ==
    LET dests  == {fl[k].Destination : k \in 1..Len(fl)} \ {NilRef}
        slices == {fl[k].Value : k \in {j \in 1..Len(fl) : fl[j].type = "UintSliceFlag"}}
                      \ {NilRef}
    IN  [r \in dests \cup slices |->
            IF r.k = "us" THEN NewUintSlice(<<8, 9>>) ELSE 0]

Start(fl, boolNames, e1, e2, f, as, short, complete, fails) ==
    LET b == RegisterBools(boolNames, NewFlagSet, InitMem(fl))
    IN  /\ flags = fl
        /\ flags0 = fl
        /\ bools = boolNames
        /\ environ = [v \in {"E1", "E2"} |-> IF v = "E1" THEN e1 ELSE e2]
        /\ files = [q \in {"F"} |-> f]
        /\ set = b.set
        /\ mem = b.mem
        /\ args = as
        /\ args0 = as
        /\ useShortOptionHandling = short
        /\ shellComplete = complete
        /\ newSetFails = fails
        /\ pc = "apply"
        /\ nApplied = 0
        /\ err = NilErr
        /\ panicked = FALSE
        /\ attempts = 0
        /\ rebuilds = 0
        /\ seen = <<>>
        /\ errs = <<>>
        /\ slice = EmptyUintSlice
        /\ calls = <<>>
        /\ got = NoRead

\* parsing scenarios: an int flag v and boolean flags, any argument list
\* (newFlagSet is only called with short-option handling)
InitParse ==
    \E boolNames \in BoolSets, as \in ArgLists(MaxArgs),
       short \in BOOLEAN, complete \in BOOLEAN, fails \in BOOLEAN :
        /\ fails => short
        /\ Start(<<FlagV("IntFlag", <<>>, FALSE, <<>>, "")>>, boolNames, Unset, Unset,
                 [readable |-> FALSE, data |-> <<>>], as, short, complete, fails)

\* resolution scenarios: a flag of any type with environment and file
\* sources, given on the command line under one of its names or not at all;
\* variables and files the flag does not name are unset and unreadable
InitApply ==
    \E type \in FlagTypes, aliases \in {<<>>, << <<"w">> >>}, bound \in BOOLEAN,
       envVars \in {<<>>, <<"E1">>, <<"E1", "E2">>}, filePath \in {"", "F"},
       uFirst \in BOOLEAN :
        LET t  == TextsOf(type)
            fv == FlagV(type, aliases, bound, envVars, filePath)
        IN  \E e1 \in {Unset, EnvText(<<>>), EnvText(t.a), EnvText(t.bad), EnvText(t.bad2)},
               e2 \in {Unset, EnvText(t.b)},
               f \in {[readable |-> FALSE, data |-> <<>>], [readable |-> TRUE, data |-> t.c],
                      [readable |-> TRUE, data |-> t.bad]},
               as \in {<<>>, <<<<"-", "v">>, t.cmd>>, <<<<"-", "w">>, t.cmd>>} :
                /\ Len(envVars) < 1 => e1 = Unset
                /\ Len(envVars) < 2 => e2 = Unset
                /\ filePath = "" => ~f.readable
                /\ Start(IF uFirst THEN <<FlagU, fv>> ELSE <<fv, FlagU>>, {<<"i">>},
                         e1, e2, f, as, FALSE, FALSE, FALSE)

Init == InitParse \/ InitApply

TypeOK ==
    /\ pc \in {"apply", "parse", "done"}
    /\ nApplied \in 0..Len(flags)
    /\ attempts \in 0..MaxAttempts
    /\ rebuilds \in 0..MaxAttempts
    /\ panicked \in BOOLEAN

\* ----------------------------------------------------------------- actions
\* the caller applies the next declared flag, of the given type, to the
\* FlagSet, with outcome r; a failed Apply is returned to the caller and
\* nothing is parsed
ApplyFlag(type, r) ==
    /\ pc = "apply"
    /\ nApplied < Len(flags)
    /\ flags[nApplied + 1].type = type
    /\ flags' = [flags EXCEPT ![nApplied + 1] = r.f]
    /\ set' = r.set
    /\ mem' = r.mem
    /\ err' = r.err
    /\ panicked' = r.panic
    /\ nApplied' = nApplied + 1
    /\ pc' = IF r.err # NilErr \/ r.panic THEN "done"
             ELSE IF nApplied + 1 = Len(flags) THEN "parse" ELSE "apply"
    /\ UNCHANGED <<bools, environ, files, args, useShortOptionHandling, shellComplete,
                   newSetFails, attempts, rebuilds, seen, errs, flags0, args0,
                   slice, calls, got>>

ApplyIntFlag == ApplyFlag("IntFlag", IntFlagApply(flags[nApplied + 1], set, mem))
ApplyUintFlag == ApplyFlag("UintFlag", UintFlagApply(flags[nApplied + 1], set, mem))
ApplyFloat64Flag == ApplyFlag("Float64Flag", Float64FlagApply(flags[nApplied + 1], set, mem))
ApplyDurationFlag == ApplyFlag("DurationFlag", DurationFlagApply(flags[nApplied + 1], set, mem))
ApplyUintSliceFlag ==
    ApplyFlag("UintSliceFlag", UintSliceFlagApply(flags[nApplied + 1], set, mem))

\* one iteration of parseIter with outcome r
ParseIterWith(r) ==
    /\ pc = "parse"
    /\ attempts < MaxAttempts
    /\ flags' = r.flags
    /\ set' = r.set
    /\ mem' = r.mem
    /\ args' = r.args
    /\ err' = r.ret
    /\ panicked' = r.panic
    /\ attempts' = attempts + 1
    /\ rebuilds' = IF r.rebuilt THEN rebuilds + 1 ELSE rebuilds
    /\ seen' = Append(seen, args)
    /\ errs' = Append(errs, r.perr)
    /\ pc' = IF r.done THEN "done" ELSE "parse"
    /\ UNCHANGED <<bools, environ, files, useShortOptionHandling, shellComplete,
                   newSetFails, nApplied, flags0, args0, slice, calls, got>>

ParseIter ==
    ParseIterWith(parseIterStep(flags, bools, set, mem, args, useShortOptionHandling,
                                shellComplete))

Next ==
    \/ ApplyIntFlag
    \/ ApplyUintFlag
    \/ ApplyFloat64Flag
    \/ ApplyDurationFlag
    \/ ApplyUintSliceFlag
    \/ ParseIter

Spec == Init /\ [][Next]_vars

\* ------------------------------------------- values that look like options
\* boolean flags named by digits, so that a negative number given as the
\* value of a flag is also a bundle of their names
DigitBools == {<<"1">>, <<"2">>}

ValueTokens(type) ==
    {<<"-", "v">>, <<"-", "1", "2">>, <<"-", "1">>, TextsOf(type).cmd}

RECURSIVE ValueLists(_, _)
ValueLists(type, n) ==
    IF n = 0 THEN {<<>>}
    ELSE LET shorter == ValueLists(type, n - 1)
         IN  shorter \cup {Append(l, t) : l \in {x \in shorter : Len(x) = n - 1},
                                          t \in ValueTokens(type)}

InitValue ==
    \E type \in FlagTypes, bound \in BOOLEAN, short \in BOOLEAN :
        \E as \in ValueLists(type, MaxArgs) :
            Start(<<FlagV(type, <<>>, bound, <<>>, "")>>, DigitBools, Unset, Unset,
                  [readable |-> FALSE, data |-> <<>>], as, short, FALSE, FALSE)

SpecValue == InitValue /\ [][Next]_vars

\* ------------------------------------------------- UintSlice.Set on its own
\* contents given to NewUintSlice and to Serialize
UintSeqs == {<<>>, <<1, 2, 3>>, <<10>>, <<0, 7>>}

\* plain (unprefixed) values given to Set
PlainTexts == {<<"1">>, <<"2", "0">>, <<"1", ",", "2", ",", "3">>, <<"x">>, <<>>}

\* a program that only holds a UintSlice: &UintSlice{} or NewUintSlice(...)
InitSlice ==
    /\ slice \in {EmptyUintSlice} \cup {NewUintSlice(d) : d \in UintSeqs}
    /\ calls = <<>>
    /\ flags = <<>>
    /\ flags0 = <<>>
    /\ bools = {}
    /\ environ = [v \in {"E1", "E2"} |-> Unset]
    /\ files = [q \in {"F"} |-> [readable |-> FALSE, data |-> <<>>]]
    /\ set = NewFlagSet
    /\ mem = InitMem(<<>>)
    /\ args = <<>>
    /\ args0 = <<>>
    /\ useShortOptionHandling = FALSE
    /\ shellComplete = FALSE
    /\ newSetFails = FALSE
    /\ pc = "slice"
    /\ nApplied = 0
    /\ err = NilErr
    /\ panicked = FALSE
    /\ attempts = 0
    /\ rebuilds = 0
    /\ seen = <<>>
    /\ errs = <<>>
    /\ got = NoRead

\* slice.Set(value) with outcome r; kind and s say where value came from
SetWith(kind, s, value, r) ==
    /\ pc = "slice"
    /\ Len(calls) < MaxSets
    /\ slice' = r.u
    /\ err' = r.err
    /\ calls' = Append(calls, [kind |-> kind, s |-> s, value |-> value,
                               before |-> slice, after |-> r.u, err |-> r.err])
    /\ UNCHANGED <<flags, bools, environ, files, set, mem, args, useShortOptionHandling,
                   shellComplete, newSetFails, pc, nApplied, panicked, attempts,
                   rebuilds, seen, flags0, args0, errs, got>>

\* slice.Set(value) for a plain value
SetPlain == \E value \in PlainTexts : SetWith("plain", <<>>, value, UintSliceSet(slice, value))

\* slice.Set(NewUintSlice(s...).Serialize())
SetSerialized ==
    \E s \in UintSeqs :
        SetWith("serialized", s, Serialize(NewUintSlice(s)),
                UintSliceSet(slice, Serialize(NewUintSlice(s))))

\* ------------------------------------------------- reading through a Context
\* names asked for: the flags v (alias w) and u, the boolean i, and a name
\* that no FlagSet registers
ReadNames == {<<"v">>, <<"w">>, <<"u">>, <<"i">>, <<"z">>}

\* a flag of any type, with or without a Destination or default slice, with
\* or without a value from the environment and on the command line
InitRead ==
    \E type \in FlagTypes, bound \in BOOLEAN, uFirst \in BOOLEAN :
        LET t  == TextsOf(type)
            fv == FlagV(type, << <<"w">> >>, bound, <<"E1">>, "")
        IN  \E e1 \in {Unset, EnvText(t.a)}, as \in {<<>>, <<<<"-", "v">>, t.cmd>>} :
                Start(IF uFirst THEN <<FlagU, fv>> ELSE <<fv, FlagU>>, {<<"i">>},
                      e1, Unset, [readable |-> FALSE, data |-> <<>>], as, FALSE, FALSE, FALSE)

\* the context chain of the given depth: the context of the FlagSet itself,
\* or a child context whose own FlagSet registers nothing
Chain(depth) == IF depth = 1 THEN <<set>> ELSE <<NewFlagSet, set>>

\* after parseIter, the accessor acc of a context is called with a name
Read(acc, name, depth, r) ==
    /\ pc = "done"
    /\ attempts >= 1
    /\ ~panicked
    /\ got' = [acc |-> acc, name |-> name, depth |-> depth, val |-> r.val, panic |-> r.panic]
    /\ UNCHANGED <<flags, bools, environ, files, set, mem, args, useShortOptionHandling,
                   shellComplete, newSetFails, pc, nApplied, err, panicked, attempts,
                   rebuilds, seen, errs, flags0, args0, slice, calls>>

\* (*Context).Int(name)
ReadInt ==
    \E name \in ReadNames, depth \in {1, 2} :
        Read("Int", name, depth,
             Accessor("Int", name, Chain(depth), mem, lookupFlagSet(name, Chain(depth))))

\* (*Context).Uint(name)
ReadUint ==
    \E name \in ReadNames, depth \in {1, 2} :
        Read("Uint", name, depth,
             Accessor("Uint", name, Chain(depth), mem, lookupFlagSet(name, Chain(depth))))

\* (*Context).Float64(name)
ReadFloat64 ==
    \E name \in ReadNames, depth \in {1, 2} :
        Read("Float64", name, depth,
             Accessor("Float64", name, Chain(depth), mem, lookupFlagSet(name, Chain(depth))))

\* (*Context).Duration(name)
ReadDuration ==
    \E name \in ReadNames, depth \in {1, 2} :
        Read("Duration", name, depth,
             Accessor("Duration", name, Chain(depth), mem, lookupFlagSet(name, Chain(depth))))

\* (*Context).UintSlice(name)
ReadUintSlice ==
    \E name \in ReadNames, depth \in {1, 2} :
        Read("UintSlice", name, depth,
             Accessor("UintSlice", name, Chain(depth), mem, lookupFlagSet(name, Chain(depth))))

NextRead ==
    \/ ApplyIntFlag
    \/ ApplyUintFlag
    \/ ApplyFloat64Flag
    \/ ApplyDurationFlag
    \/ ApplyUintSliceFlag
    \/ ParseIter
    \/ ReadInt
    \/ ReadUint
    \/ ReadFloat64
    \/ ReadDuration
    \/ ReadUintSlice

SpecRead == InitRead /\ [][NextRead]_vars

NextSlice == SetPlain \/ SetSerialized

SpecSlice == InitSlice /\ [][NextSlice]_vars

\* ------------------------------------------------------- notions of the claims
Dash(name) == <<"-">> \o name

\* a bundle candidate: exactly one leading dash and more than two characters
Bundle(tok) == Len(tok) > 2 /\ tok[1] = "-" /\ tok[2] # "-"

Bundled(as) == Cardinality({k \in 1..Len(as) : Bundle(as[k])})

RECURSIVE IsSubseq(_, _)
IsSubseq(a, b) ==
    IF a = <<>> THEN TRUE
    ELSE IF b = <<>> THEN FALSE
    ELSE IF Head(a) = Head(b) THEN IsSubseq(Tail(a), Tail(b))
    ELSE IsSubseq(a, Tail(b))

NotBundle(tok) == ~Bundle(tok)

\* the error of a parse attempt says that flag `name` is not defined
UnknownFlag(e) == e.fmt = "flag provided but not defined: -%s"

\* the flag under test, as it is now and as it was declared
VIdx == CHOOSE k \in 1..Len(flags0) : flags0[k].Name = <<"v">>
FV == flags[VIdx]
FV0 == flags0[VIdx]
VApplied == nApplied >= VIdx

\* the value a text denotes for a flag type
Denotes(type, text) ==
    CASE type = "IntFlag"      -> ParseInt(text, 10)
      [] type = "UintFlag"     -> ParseUint(text, 10)
      [] type = "Float64Flag"  -> ParseFloat(text)
      [] type = "DurationFlag" -> ParseDuration(text)
      [] type = "UintSliceFlag" ->
            IF HasPrefix(text, slPfx)
            THEN LET u == Unmarshal(TrimPrefix(text, slPfx), <<>>)
                 IN  [ok |-> u.ok, val |-> u.slice]
            ELSE LET ps == Split(text, ",")
                 IN  IF \A k \in 1..Len(ps) : ParseUint(TrimSpace(ps[k]), 10).ok
                     THEN [ok |-> TRUE,
                           val |-> [k \in 1..Len(ps) |-> ParseUint(TrimSpace(ps[k]), 10).val]]
                     ELSE [ok |-> FALSE, val |-> <<>>]

\* the raw text the environment and the file supply for the flag under test
Raw == flagFromEnvOrFile(FV0.EnvVars, FV0.FilePath)
HasRaw == Raw.ok /\ Raw.val # <<>>

\* the value registered in the FlagSet under a name
CellValue(name) ==
    LET e == set.formal[name]
    IN  IF e.kind = "uintslice" THEN mem[e.ref].slice ELSE mem[e.ref]

\* the static default of the flag under test
StaticDefault ==
    IF FV0.type = "UintSliceFlag"
    THEN (IF FV0.Value = NilRef THEN <<>> ELSE InitMem(flags0)[FV0.Value].slice)
    ELSE FV0.Value

\* the flag under test occurs on the command line under one of its names
OnCommandLine ==
    \E k \in 1..Len(args0) : \E j \in 1..Len(Names(FV0)) : args0[k] = Dash(Names(FV0)[j])

\* the value a command-line token gives a flag of a type that had no value
CmdValue(type, tok) ==
    CASE type = "IntFlag"       -> Convert("int", tok)
      [] type = "UintFlag"      -> Convert("uint", tok)
      [] type = "Float64Flag"   -> Convert("float64", tok)
      [] type = "DurationFlag"  -> Convert("duration", tok)
      [] type = "UintSliceFlag" ->
             [ok |-> ParseUint(tok, 10).ok, val |-> <<ParseUint(tok, 10).val>>]

\* ------------------------------------------------------------------ claims
\* C1: with short-option handling, ["-it"] against boolean flags i and t
\* returns no error and sets both i and t, like ["-i", "-t"].
C1_BundleSetsBothFlags ==
    (/\ pc = "done"
     /\ attempts >= 1
     /\ useShortOptionHandling
     /\ bools = {<<"i">>, <<"t">>}
     /\ args0 = <<Dash(<<"i", "t">>)>>)
        => /\ err = NilErr
           /\ mem[VarRef(<<"i">>)] = TRUE
           /\ mem[VarRef(<<"t">>)] = TRUE

\* C2: parseIter terminates: the working argument list loses a bundle with
\* every further attempt, the number of parse attempts is at most one more
\* than the number of bundles of the original list, and an attempt that does
\* not rewrite the list is the last one.
C2_AttemptsBounded ==
    /\ attempts <= Bundled(args0) + 1
    /\ \A k \in 1..Len(seen) :
          /\ k < Len(seen) => Bundled(seen[k + 1]) < Bundled(seen[k])
          /\ k = Len(seen) /\ pc = "parse" => Bundled(args) < Bundled(seen[k])
          /\ k = Len(seen) /\ args = seen[k] => pc = "done"

C2_Witness ==
    /\ pc = "done"
    /\ useShortOptionHandling
    /\ attempts = 1
    /\ Bundled(args0) >= 2
    /\ errs[1] # NilErr

C4_OnlyBundlesRewritten ==
    /\ \A k \in 1..Len(seen) : IsSubseq(SelectSeq(args0, NotBundle), seen[k])
    /\ IsSubseq(SelectSeq(args0, NotBundle), args)

C4_Witness ==
    /\ pc = "done"
    /\ useShortOptionHandling
    /\ bools = {<<"i">>, <<"t">>}
    /\ UnknownFlag(errs[1])
    /\ args0 = <<Dash(<<"i">>), Dash(Dash(<<"i", "t">>))>>
    /\ seen = <<args0>>

\* C5: with shellComplete, parseIter returns nil for every argument list and
\* every parse failure, with or without short-option handling.
C5_ShellCompleteReturnsNil ==
    (pc = "done" /\ attempts >= 1 /\ shellComplete /\ ~panicked) => err = NilErr

\* C6: a value given on the command line overrides the value the
\* environment or the file supplied, in the FlagSet and in the Destination.
C6_CommandLineWins ==
    \A j \in 1..Len(Names(FV0)) : \A t \in {TextsOf(FV0.type).cmd} :
        (/\ pc = "done"
         /\ attempts >= 1
         /\ err = NilErr
         /\ ~panicked
         /\ HasRaw
         /\ Denotes(FV0.type, Raw.val).ok
         /\ Denotes(FV0.type, t).ok
         /\ args0 = <<Dash(Names(FV0)[j]), t>>)
            => /\ CellValue(Names(FV0)[j]) = Denotes(FV0.type, t).val
               /\ FV0.Destination # NilRef => mem[FV0.Destination] = Denotes(FV0.type, t).val

C6_Witness ==
    /\ pc = "done"
    /\ err = NilErr
    /\ HasRaw
    /\ Denotes(FV0.type, Raw.val).ok
    /\ Denotes(FV0.type, Raw.val).val # Denotes(FV0.type, TextsOf(FV0.type).cmd).val
    /\ FV0.Destination # NilRef
    /\ flags0[1] = FV0
    /\ args0 = <<Dash(<<"w">>), TextsOf(FV0.type).cmd>>
    /\ mem[FV0.Destination] = Denotes(FV0.type, TextsOf(FV0.type).cmd).val

\* C7: a flag with envVars = [E], E valid, and no command-line occurrence
\* resolves to the value of E in the FlagSet and IsSet() is true, for every
\* flag type.
C7_EnvValueRegistered ==
    (/\ pc = "done"
     /\ attempts >= 1
     /\ err = NilErr
     /\ ~panicked
     /\ FV0.EnvVars = <<"E1">>
     /\ environ["E1"].set
     /\ environ["E1"].val # <<>>
     /\ Denotes(FV0.type, environ["E1"].val).ok
     /\ ~OnCommandLine)
        => /\ CellValue(FV0.Name) = Denotes(FV0.type, environ["E1"].val).val
           /\ FV.HasBeenSet

\* C8: with no command-line occurrence, the environment value wins over the
\* file value, the first set and non-empty variable is taken, and the file is
\* used only when no variable supplied text.
C8_EnvBeatsFile ==
    LET hits  == {k \in 1..Len(FV0.EnvVars) :
                     environ[FV0.EnvVars[k]].set /\ environ[FV0.EnvVars[k]].val # <<>>}
        first == CHOOSE k \in hits : \A j \in hits : k <= j
        text  == IF hits # {} THEN environ[FV0.EnvVars[first]].val
                 ELSE TrimSpace(files[FV0.FilePath].data)
    IN  (/\ VApplied
         /\ err = NilErr
         /\ ~panicked
         /\ ~OnCommandLine
         /\ hits # {} \/ (FV0.FilePath # "" /\ files[FV0.FilePath].readable)
         /\ text # <<>>
         /\ Denotes(FV0.type, text).ok)
            => /\ CellValue(FV0.Name) = Denotes(FV0.type, text).val
               /\ FV.HasBeenSet

\* C9: when the raw text of the environment or the file cannot be converted
\* to the flag's type, Apply returns an error carrying the raw text and the
\* flag's name, and nothing is parsed after it.
C9_ConversionErrorReported ==
    (/\ VApplied
     /\ ~panicked
     /\ HasRaw
     /\ ~Denotes(FV0.type, Raw.val).ok)
        => /\ pc = "done"
           /\ attempts = 0
           /\ err # NilErr
           /\ Len(err.args) >= 2
           /\ err.args[1] = Raw.val
           /\ err.args[2] = FV0.Name

\* C10: with no raw text from any source and no command-line occurrence, the
\* value registered under the flag's name is the static default and
\* HasBeenSet is still false.
C10_DefaultKept ==
    (/\ VApplied
     /\ ~HasRaw
     /\ ~OnCommandLine)
        => /\ ~panicked
           /\ Registered(set, FV0.Name)
           /\ CellValue(FV0.Name) = StaticDefault
           /\ ~FV.HasBeenSet

\* C11: after Apply and any parse, a flag whose IsSet() is false still holds
\* its static default, in the FlagSet and in its Destination: a value given
\* on the command line or resolved from the environment or the file makes
\* IsSet() true.
C11_UnsetHoldsDefault ==
    (/\ pc = "done"
     /\ attempts >= 1
     /\ ~panicked
     /\ ~FV.HasBeenSet)
        => /\ CellValue(FV0.Name) = StaticDefault
           /\ FV0.Destination # NilRef => mem[FV0.Destination] = StaticDefault

\* C12: after Apply and a successful parse in which the flag is given under
\* one of its names, the FlagSet holds the given value under every name of the
\* flag, with and without a Destination, for every flag type.
C12_NamesShareValue ==
    \A j \in 1..Len(Names(FV0)) : \A k \in 1..Len(Names(FV0)) :
        (/\ pc = "done"
         /\ attempts >= 1
         /\ err = NilErr
         /\ ~panicked
         /\ args0 = <<Dash(Names(FV0)[j]), TextsOf(FV0.type).cmd>>)
            => CellValue(Names(FV0)[k]) = Denotes(FV0.type, TextsOf(FV0.type).cmd).val

\* C13: for every sequence s and every UintSlice, fresh, holding defaults or
\* already set, Set(Serialize(s)) returns nil and leaves the slice holding
\* exactly s.
C13_SerializedOverwrites ==
    \A k \in 1..Len(calls) :
        calls[k].kind = "serialized"
            => /\ calls[k].err = NilErr
               /\ UintSliceValue(calls[k].after) = calls[k].s
               /\ calls[k].after.hasBeenSet

C13_Witness ==
    \E k \in 1..Len(calls) :
        /\ calls[k].kind = "serialized"
        /\ calls[k].before.hasBeenSet
        /\ UintSliceValue(calls[k].before) = <<1, 20>>
        /\ calls[k].s = <<0, 7>>
        /\ UintSliceValue(slice) = <<0, 7>>
        /\ k = Len(calls)

\* C14: successful Set calls with plain values on a slice created with
\* defaults leave the slice holding exactly those values in call order, and
\* Set("1,2,3") on a slice that has been set appends 1, 2, 3 to its contents.
C14_PlainTextAccumulates ==
    /\ (Len(calls) >= 1
            /\ \A k \in 1..Len(calls) : calls[k].kind = "plain" /\ calls[k].err = NilErr)
           => UintSliceValue(slice) = [k \in 1..Len(calls) |-> ParseUint(calls[k].value, 10).val]
    /\ \A k \in 1..Len(calls) :
           (calls[k].value = <<"1", ",", "2", ",", "3">> /\ calls[k].before.hasBeenSet)
               => /\ calls[k].err = NilErr
                  /\ UintSliceValue(calls[k].after)
                         = UintSliceValue(calls[k].before) \o <<1, 2, 3>>

\* C15: every typed Context accessor, called with any name, returns and does
\* not abort; it returns the type's zero value when no FlagSet of the chain
\* registers the name and when the flag's value does not convert, a flag of
\* another type included.
C15_AccessorsNeverAbort ==
    got.acc # "none"
        => /\ ~got.panic
           /\ (\A k \in 1..Len(Chain(got.depth)) : ~Registered(Chain(got.depth)[k], got.name))
                  => got.val = Zero(got.acc)
           /\ (got.acc = "UintSlice" /\ Registered(set, got.name)
                   /\ set.formal[got.name].kind # "uintslice")
                  => got.val = Zero(got.acc)

\* C18: TakesValue() is true for every flag type that carries a value:
\* IntFlag, UintFlag, Float64Flag, DurationFlag and UintSliceFlag.
C18_ValueFlagsTakeValue ==
    \A k \in 1..Len(flags) : flags[k].type \in FlagTypes => TakesValue(flags[k])

\* C20: when Apply returns a conversion error, no name of the flag has been
\* registered in the FlagSet and the flag's Value (the slice it points to,
\* for a UintSliceFlag) and HasBeenSet are the same as before the call.
C20_FailedApplyAtomic ==
    (/\ pc = "done"
     /\ attempts = 0
     /\ ~panicked
     /\ err # NilErr)
        => LET f  == flags[nApplied]
               f0 == flags0[nApplied]
           IN  /\ \A j \in 1..Len(Names(f0)) : ~Registered(set, Names(f0)[j])
               /\ f.HasBeenSet = f0.HasBeenSet
               /\ f.Value = f0.Value
               /\ (f0.type = "UintSliceFlag" /\ f0.Value # NilRef)
                      => mem[f0.Value] = InitMem(flags0)[f0.Value]

C21_FailedSetKeepsSlice ==
    \A k \in 1..Len(calls) :
        (calls[k].kind = "plain" /\ calls[k].err # NilErr)
            => /\ UintSliceValue(calls[k].after) = UintSliceValue(calls[k].before)
               /\ calls[k].after.hasBeenSet = calls[k].before.hasBeenSet

====
